---- MODULE Spec2Model ----
(***************************************************************************)
(* Conversation and agent-turn orchestration of the phase-3 backend:       *)
(*   services/conversations.py  get_or_create_conversation,                *)
(*                              get_recent_messages, store_message         *)
(*   services/chat.py           process_user_message                       *)
(*   api/chat.py                chat (POST /chat),                         *)
(*                              get_conversation (GET /conversations)      *)
(* Every HTTP request is a process with its own database session.  A step  *)
(* of the model is one database round trip (a SELECT, or the flush and     *)
(* COMMIT of one transaction) or the agent call; requests interleave       *)
(* between steps.                                                          *)
(***************************************************************************)
EXTENDS Integers, Sequences, FiniteSets, TLC

\* ---------------------------------------------------------------- bounds
NumRequests == 2        \* concurrent HTTP requests
NumUsers == 2           \* authenticated users
MaxClock == 2           \* wall-clock readings are 1..MaxClock
MaxLimit == 4           \* the default limit of get_recent_messages is one of 1..MaxLimit
NumCalls == 2           \* calls of PrometheusMiddleware.dispatch
NumTasks == 3           \* tasks that invoke graceful_shutdown
NumDays == 14           \* days on which _preprocess_day_pattern is called

Requests == 1..NumRequests
Users == 1..NumUsers

\* ------------------------------------------------------------ text values
\* A text is a sequence of characters; SP is a whitespace character.
SP == " "
Whitespace == {SP}
Texts == {<<>>, <<SP>>, <<SP, "a">>, <<"b">>}
Replies == {<<"r">>}

RECURSIVE lstrip(_)
lstrip(s) ==
    IF s = <<>> THEN <<>>
    ELSE IF Head(s) \in Whitespace THEN lstrip(Tail(s)) ELSE s

RECURSIVE rstrip(_)
rstrip(s) ==
    IF s = <<>> THEN <<>>
    ELSE IF s[Len(s)] \in Whitespace THEN rstrip(SubSeq(s, 1, Len(s) - 1)) ELSE s

\* str.strip()
strip(s) == rstrip(lstrip(s))

\* ------------------------------------------------------------------ state
VARIABLES
    conversations,    \* table Conversation: set of [id, user_id, updated_at]
    messages,         \* table Message, in storage (commit) order
    now,              \* wall clock, datetime.now(timezone.utc)
    default_limit,    \* default of get_recent_messages' parameter limit
    pc,               \* position of each request
    kind,             \* "chat" | "view" | "none"
    user,             \* current_user.id of the request
    text,             \* request.message
    conversation,     \* the Conversation object held by the request's session
    pending,          \* the message and timestamp added to the session, not committed
    recent_messages,  \* result of get_recent_messages in the request
    response_content, \* reply text of the agent
    invocations,      \* number of agent.process_message calls of the request
    user_message,     \* id of the message stored at step 2 of the turn (0: none)
    assistant_message,\* id of the message stored at step 6 of the turn (0: none)
    response,         \* HTTP response of the request
    created,          \* id of the Conversation the request has inserted (0: none)
    after             \* the requests that had ended when the request arrived

\* State of the phase-5 backend's middleware/metrics.py
VARIABLES
    REQUEST_IN_PROGRESS, \* gauge, by (method, endpoint)
    REQUEST_COUNT,       \* counter, by (method, endpoint, status_code)
    REQUEST_LATENCY,     \* histogram, number of observations by (method, endpoint)
    ERROR_COUNT,         \* counter, by (type, endpoint)
    dispatch_pc,         \* position of each call of PrometheusMiddleware.dispatch
    request,             \* the Request of the call: method and url.path
    status_code,         \* the local variable status_code of the call
    gauge_incs,          \* number of inc() of the gauge by the call
    gauge_decs,          \* number of dec() of the gauge by the call
    count_incs           \* number of inc() of the request counter by the call

metrics_vars == <<REQUEST_IN_PROGRESS, REQUEST_COUNT, REQUEST_LATENCY,
                  ERROR_COUNT, dispatch_pc, request, status_code,
                  gauge_incs, gauge_decs, count_incs>>

chat_vars == <<conversations, messages, now, default_limit, pc, kind, user, text, conversation,
          pending, recent_messages, response_content, invocations,
          user_message, assistant_message, response, created, after>>

\* State of the phase-5 backend's main.py
VARIABLES
    shutting_down,       \* the global flag _shutting_down
    shutdown_pc,         \* position of each invocation of graceful_shutdown
    shutdown_log,        \* the starts and ends of the shutdown steps, in order
    outcome              \* how each invocation has ended

shutdown_vars == <<shutting_down, shutdown_pc, shutdown_log, outcome>>

\* State of the phase-5 backend's utils/date_parser.py
VARIABLES
    today,               \* the date of datetime.now(timezone.utc), as a day number
    parsed               \* the last call of _preprocess_day_pattern and its result

date_vars == <<today, parsed>>

vars == <<chat_vars, metrics_vars, shutdown_vars, date_vars>>

NoConversation == [id |-> 0, user_id |-> 0, updated_at |-> 0]
NoPending == [role |-> "none", content |-> <<>>, updated_at |-> 0]
NoResponse == [status |-> 0, detail |-> "none", message |-> 0]

\* ------------------------------------------------- services/conversations
\* Variant: the query has no where clause
SelectConversationAnyUser(table, u) ==
    {c \in table : \A d \in table : d.updated_at <= c.updated_at}

\* select(Conversation).where(user_id == u).order_by(updated_at.desc()).first()
\* The order among rows of equal updated_at is not determined by the query:
\* every row with the greatest updated_at is a possible first row.
SelectConversation(table, u) ==
    LET rows == {c \in table : c.user_id = u}
    IN  {c \in rows : \A d \in rows : d.updated_at <= c.updated_at}

\* Conversation(user_id=user_id): a new row with a fresh identifier, its
\* timestamp the clock reading at construction
NewConversation(table, u) ==
    [id |-> Cardinality(table) + 1, user_id |-> u, updated_at |-> now]

\* get_or_create_conversation run without interruption on a table: the
\* possible outcomes, each the conversation returned and the table afterwards
get_or_create_conversation(table, u) ==
    IF SelectConversation(table, u) = {}
    THEN {[conversation |-> NewConversation(table, u),
           conversations |-> table \cup {NewConversation(table, u)}]}
    ELSE {[conversation |-> c, conversations |-> table] :
             c \in SelectConversation(table, u)}

\* Messages of one conversation, in storage order
MessagesOf(cid) == SelectSeq(messages, LAMBDA m : m.conversation_id = cid)

\* Variant: the creation time is the wall-clock reading alone
CreatedAtWallClock(cid) == now

\* Variant: the creation time is the clock reading the committing session
\* took when it built the message, before the commit
CreatedAtAtConstruction(cid) ==
    LET committing == {r \in Requests :
                          /\ pc[r] \in {"commit_user", "commit_assistant"}
                          /\ conversation[r].id = cid}
    IN  IF committing = {} THEN now
        ELSE pending[CHOOSE r \in committing :
                         \A q \in committing : r >= q].updated_at

\* Creation time given to a message when it is inserted: the wall-clock
\* reading, or the tick after the newest message of the conversation when the
\* clock has not passed it
CreatedAt(cid) ==
    LET prior == {MessagesOf(cid)[i].created_at : i \in 1..Len(MessagesOf(cid))}
    IN  IF \E p \in prior : p >= now
        THEN (CHOOSE p \in prior : \A q \in prior : q <= p) + 1
        ELSE now

\* Message(conversation_id, role, content) as inserted by the commit
NewMessage(cid, role, content) ==
    [id |-> Len(messages) + 1, conversation_id |-> cid, role |-> role,
     content |-> content, created_at |-> CreatedAt(cid)]

\* Rows of a conversation ordered by created_at descending (newest first)
RECURSIVE OrderByCreatedDesc(_)
OrderByCreatedDesc(S) ==
    IF S = {} THEN <<>>
    ELSE LET m == CHOOSE x \in S : \A y \in S :
                     \/ y.created_at < x.created_at
                     \/ (y.created_at = x.created_at /\ y.id <= x.id)
         IN  <<m>> \o OrderByCreatedDesc(S \ {m})

Reverse(s) == [i \in 1..Len(s) |-> s[Len(s) + 1 - i]]

\* Variant: the newest-first rows are returned without the reversal
get_recent_messages_newest_first(cid, limit) ==
    LET rows == {messages[i] : i \in {j \in 1..Len(messages) :
                                        messages[j].conversation_id = cid}}
        desc == OrderByCreatedDesc(rows)
    IN  SubSeq(desc, 1, IF Len(desc) < limit THEN Len(desc) ELSE limit)

\* get_recent_messages(session, conversation_id, limit)
get_recent_messages(cid, limit) ==
    LET rows == {messages[i] : i \in {j \in 1..Len(messages) :
                                        messages[j].conversation_id = cid}}
        desc == OrderByCreatedDesc(rows)
        newest == SubSeq(desc, 1, IF Len(desc) < limit THEN Len(desc) ELSE limit)
    IN  Reverse(newest)

\* history = [{"role": m.role, "content": m.content} for m in recent_messages]
History(r) ==
    [i \in 1..Len(recent_messages[r]) |->
        [role |-> recent_messages[r][i].role,
         content |-> recent_messages[r][i].content]]

\* The UPDATE of the conversation row flushed by store_message's commit
BumpConversation(cid, t) ==
    {IF c.id = cid THEN [c EXCEPT !.updated_at = t] ELSE c : c \in conversations}

\* ---------------------------------------------------- middleware/metrics
Calls == 1..NumCalls
Methods == {"GET", "POST"}

\* A path is its sequence of segments; "7" is a segment of digits.
Paths == {<<"metrics">>, <<"tasks">>, <<"tasks", "7">>}
Numeric == {"7"}

\* normalize_path: re.sub(r"/\d+", "/{id}", path) for paths whose segments
\* either are numbers or hold no digit
normalize_path(path) ==
    [i \in 1..Len(path) |-> IF path[i] \in Numeric THEN "{id}" ELSE path[i]]

Endpoints == {normalize_path(p) : p \in Paths}
StatusCodes == {200, 404}       \* response.status_code of a handler that returns

NoRequest == [method |-> "none", path |-> <<>>]

MetricsInit ==
    /\ REQUEST_IN_PROGRESS = [l \in Methods \X Endpoints |-> 0]
    /\ REQUEST_COUNT = [l \in Methods \X Endpoints \X (StatusCodes \cup {500}) |-> 0]
    /\ REQUEST_LATENCY = [l \in Methods \X Endpoints |-> 0]
    /\ ERROR_COUNT = [l \in {"Exception"} \X Endpoints |-> 0]
    /\ dispatch_pc = [k \in Calls |-> "idle"]
    /\ request = [k \in Calls |-> NoRequest]
    /\ status_code = [k \in Calls |-> 0]       \* 0: not assigned yet
    /\ gauge_incs = [k \in Calls |-> 0]
    /\ gauge_decs = [k \in Calls |-> 0]
    /\ count_incs = [k \in Calls |-> 0]

\* The labels of the call's request
Label(k) == <<request[k].method, normalize_path(request[k].path)>>

\* dispatch up to the await of call_next (lines 188-204)
Dispatch(k) ==
    /\ dispatch_pc[k] = "idle"
    /\ \E m \in Methods, p \in Paths :
        /\ request' = [request EXCEPT ![k] = [method |-> m, path |-> p]]
        /\ IF p = <<"metrics">>
           THEN /\ dispatch_pc' = [dispatch_pc EXCEPT ![k] = "skip"]
                /\ UNCHANGED <<REQUEST_IN_PROGRESS, gauge_incs>>
           ELSE /\ REQUEST_IN_PROGRESS' = [REQUEST_IN_PROGRESS EXCEPT
                       ![<<m, normalize_path(p)>>] = @ + 1]
                /\ gauge_incs' = [gauge_incs EXCEPT ![k] = @ + 1]
                /\ dispatch_pc' = [dispatch_pc EXCEPT ![k] = "call_next"]
    /\ UNCHANGED <<REQUEST_COUNT, REQUEST_LATENCY, ERROR_COUNT, status_code,
                   gauge_decs, count_incs, chat_vars, shutdown_vars, date_vars>>

\* return await call_next(request) of a /metrics request (lines 190-191)
Skip(k) ==
    /\ dispatch_pc[k] = "skip"
    /\ \E end \in {"returned", "raised"} :
           dispatch_pc' = [dispatch_pc EXCEPT ![k] = end]
    /\ UNCHANGED <<REQUEST_IN_PROGRESS, REQUEST_COUNT, REQUEST_LATENCY,
                   ERROR_COUNT, request, status_code, gauge_incs, gauge_decs,
                   count_incs, chat_vars, shutdown_vars, date_vars>>

\* The finally block (lines 213-230) of a call whose status_code is code
Finally(k, code) ==
    /\ REQUEST_COUNT' = [REQUEST_COUNT EXCEPT
           ![<<Label(k)[1], Label(k)[2], code>>] = @ + 1]
    /\ count_incs' = [count_incs EXCEPT ![k] = @ + 1]
    /\ REQUEST_LATENCY' = [REQUEST_LATENCY EXCEPT ![Label(k)] = @ + 1]
    /\ REQUEST_IN_PROGRESS' = [REQUEST_IN_PROGRESS EXCEPT ![Label(k)] = @ - 1]
    /\ gauge_decs' = [gauge_decs EXCEPT ![k] = @ + 1]

\* call_next returns a response (lines 206-209, 213-232)
CallNextReturns(k) ==
    /\ dispatch_pc[k] = "call_next"
    /\ \E code \in StatusCodes :
        /\ status_code' = [status_code EXCEPT ![k] = code]
        /\ Finally(k, code)
    /\ dispatch_pc' = [dispatch_pc EXCEPT ![k] = "returned"]
    /\ UNCHANGED <<ERROR_COUNT, request, gauge_incs, chat_vars, shutdown_vars, date_vars>>

\* call_next raises an Exception (lines 211-230): the except clause sets
\* status_code and records the error, the finally block runs, the
\* exception is raised again
CallNextRaises(k) ==
    /\ dispatch_pc[k] = "call_next"
    /\ status_code' = [status_code EXCEPT ![k] = 500]
    /\ ERROR_COUNT' = [ERROR_COUNT EXCEPT
           ![<<"Exception", Label(k)[2]>>] = @ + 1]
    /\ Finally(k, 500)
    /\ dispatch_pc' = [dispatch_pc EXCEPT ![k] = "raised"]
    /\ UNCHANGED <<request, gauge_incs, chat_vars, shutdown_vars, date_vars>>

\* The await of call_next raises a BaseException that is no Exception
\* (asyncio.CancelledError when the request's task is cancelled): no except
\* clause runs, and the finally block raises UnboundLocalError at
\* str(status_code) (line 221), before any metric is recorded.
CallNextCancelled(k) ==
    /\ dispatch_pc[k] = "call_next"
    /\ status_code[k] = 0
    /\ dispatch_pc' = [dispatch_pc EXCEPT ![k] = "raised"]
    /\ UNCHANGED <<REQUEST_IN_PROGRESS, REQUEST_COUNT, REQUEST_LATENCY,
                   ERROR_COUNT, request, status_code, gauge_incs, gauge_decs,
                   count_incs, chat_vars, shutdown_vars, date_vars>>

MetricsNext ==
    \E k \in Calls :
        \/ Dispatch(k)
        \/ Skip(k)
        \/ CallNextReturns(k)
        \/ CallNextRaises(k)
        \/ CallNextCancelled(k)

\* ---------------------------------------------------------------- main.py
Tasks == 1..NumTasks

\* The shutdown sequence when every step returns
Sequence == <<"scheduler_stop_start", "scheduler_stop_end",
              "publisher_close_start", "publisher_close_end",
              "tracing_shutdown_start", "tracing_shutdown_end">>

ShutdownInit ==
    /\ shutting_down = FALSE
    /\ shutdown_pc = [t \in Tasks |-> "idle"]
    /\ shutdown_log = <<>>
    /\ outcome = [t \in Tasks |-> "none"]

\* Variant: the sequence is entered without the test of the flag
InvokeNoFlag(t) ==
    /\ shutdown_pc[t] = "idle"
    /\ shutting_down' = TRUE
    /\ shutdown_pc' = [shutdown_pc EXCEPT ![t] = "stop"]
    /\ shutdown_log' = Append(shutdown_log, "scheduler_stop_start")
    /\ UNCHANGED <<outcome, chat_vars, metrics_vars, date_vars>>

\* graceful_shutdown up to the first await (lines 48-60): the test and the
\* assignment of the flag run without a suspension in between
Invoke(t) ==
    /\ shutdown_pc[t] = "idle"
    /\ IF shutting_down
       THEN /\ shutdown_pc' = [shutdown_pc EXCEPT ![t] = "returned"]
            /\ outcome' = [outcome EXCEPT ![t] = "already"]
            /\ UNCHANGED <<shutting_down, shutdown_log>>
       ELSE /\ shutting_down' = TRUE
            /\ shutdown_pc' = [shutdown_pc EXCEPT ![t] = "stop"]
            /\ shutdown_log' = Append(shutdown_log, "scheduler_stop_start")
            /\ UNCHANGED outcome
    /\ UNCHANGED <<chat_vars, metrics_vars, date_vars>>

\* reminder_scheduler.stop() returns and event_publisher.close() is awaited
\* (lines 60-65)
StopReturns(t) ==
    /\ shutdown_pc[t] = "stop"
    /\ shutdown_log' = shutdown_log \o <<"scheduler_stop_end",
                                          "publisher_close_start">>
    /\ shutdown_pc' = [shutdown_pc EXCEPT ![t] = "close"]
    /\ UNCHANGED <<shutting_down, outcome, chat_vars, metrics_vars, date_vars>>

\* event_publisher.close() returns and shutdown_tracing() is called, which
\* returns or raises (lines 65-78); shutdown_tracing is not awaited
CloseReturns(t) ==
    /\ shutdown_pc[t] = "close"
    /\ \E raises \in BOOLEAN :
        /\ shutdown_log' = shutdown_log \o
               (IF raises
                THEN <<"publisher_close_end", "tracing_shutdown_start">>
                ELSE <<"publisher_close_end", "tracing_shutdown_start",
                       "tracing_shutdown_end">>)
        /\ outcome' = [outcome EXCEPT ![t] =
               IF raises THEN "Exception" ELSE "completed"]
    /\ shutdown_pc' = [shutdown_pc EXCEPT ![t] = "returned"]
    /\ UNCHANGED <<shutting_down, chat_vars, metrics_vars, date_vars>>

\* The awaited step raises an Exception, or the timeout of line 57 expires
\* during it and raises TimeoutError: the except clauses of lines 73-76
\* log it and graceful_shutdown returns
StepFails(t) ==
    /\ shutdown_pc[t] \in {"stop", "close"}
    /\ \E e \in {"Exception", "TimeoutError"} :
           outcome' = [outcome EXCEPT ![t] = e]
    /\ shutdown_pc' = [shutdown_pc EXCEPT ![t] = "returned"]
    /\ UNCHANGED <<shutting_down, shutdown_log, chat_vars, metrics_vars, date_vars>>

\* The task is cancelled while it awaits the step: asyncio.CancelledError is
\* a BaseException and no Exception, no except clause catches it and it
\* leaves graceful_shutdown
StepCancelled(t) ==
    /\ shutdown_pc[t] \in {"stop", "close"}
    /\ outcome' = [outcome EXCEPT ![t] = "CancelledError"]
    /\ shutdown_pc' = [shutdown_pc EXCEPT ![t] = "raised"]
    /\ UNCHANGED <<shutting_down, shutdown_log, chat_vars, metrics_vars, date_vars>>

ShutdownNext ==
    \E t \in Tasks :
        \/ Invoke(t)
        \/ StopReturns(t)
        \/ CloseReturns(t)
        \/ StepFails(t)
        \/ StepCancelled(t)

\* ---------------------------------------------------- utils/date_parser
_DAY_NAMES == <<"monday", "tuesday", "wednesday", "thursday", "friday",
                "saturday", "sunday">>

\* A date is the number of days since a Monday; datetime.weekday() is 0 for
\* Monday .. 6 for Sunday
weekday(d) == d % 7

\* today + timedelta(days=n)
timedelta(d, n) == d + n

\* result_date.strftime('%Y-%m-%d')
strftime(d) == <<"%Y-%m-%d", d>>

\* _DAY_NAMES.index(name), counted from 0
index(name) == (CHOOSE i \in 1..Len(_DAY_NAMES) : _DAY_NAMES[i] = name) - 1

\* str.lower() on the words used here
lower(w) ==
    CASE w = "Next" -> "next"
      [] w = "THIS" -> "this"
      [] w = "On" -> "on"
      [] w = "Friday" -> "friday"
      [] OTHER -> w

\* A text is its sequence of words; text.lower().strip() leaves the words
\* in lower case, separated by whitespace
text_lower(t) == [i \in 1..Len(t) |-> lower(t[i])]

IsDay(w) == \E i \in 1..Len(_DAY_NAMES) : _DAY_NAMES[i] = w

\* The texts given to _preprocess_day_pattern
DayWords == {_DAY_NAMES[i] : i \in 1..Len(_DAY_NAMES)} \cup {"Friday"}
DateTexts ==
    {<<d>> : d \in DayWords}
      \cup {<<p, d>> : p \in {"next", "Next", "this", "THIS", "on", "On"},
                        d \in DayWords}
      \cup {<<"tomorrow">>, <<"next", "week">>, <<"on", "monday", "morning">>}

\* Variant: a target of today's weekday is kept at 0 days ahead
DaysAheadNextSameDay(target_day_num, current_day_num) ==
    IF target_day_num - current_day_num < 0
    THEN target_day_num - current_day_num + 7
    ELSE target_day_num - current_day_num

\* days_ahead of the pattern "next [day]" (lines 48-50)
DaysAheadNext(target_day_num, current_day_num) ==
    IF target_day_num - current_day_num <= 0
    THEN target_day_num - current_day_num + 7
    ELSE target_day_num - current_day_num

\* days_diff of the pattern "this [day]" (line 62)
DaysDiffThis(target_day_num, current_day_num) ==
    target_day_num - current_day_num

\* days_ahead of the pattern "on [day]" and of the bare day name (lines
\* 74-76 and 88-90)
DaysAheadOn(target_day_num, current_day_num) ==
    IF target_day_num - current_day_num < 0
    THEN target_day_num - current_day_num + 7
    ELSE target_day_num - current_day_num

\* _preprocess_day_pattern(text) called on the day now: the ISO date of the
\* matched pattern, or the text itself
_preprocess_day_pattern(t, now_date) ==
    LET tl == text_lower(t)
        current_day_num == weekday(now_date)
    IN  IF Len(tl) = 2 /\ tl[1] = "next" /\ IsDay(tl[2])
        THEN strftime(timedelta(now_date,
                 DaysAheadNext(index(tl[2]), current_day_num)))
        ELSE IF Len(tl) = 2 /\ tl[1] = "this" /\ IsDay(tl[2])
        THEN strftime(timedelta(now_date,
                 DaysDiffThis(index(tl[2]), current_day_num)))
        ELSE IF Len(tl) = 2 /\ tl[1] = "on" /\ IsDay(tl[2])
        THEN strftime(timedelta(now_date,
                 DaysAheadOn(index(tl[2]), current_day_num)))
        ELSE IF Len(tl) = 1 /\ IsDay(tl[1])
        THEN strftime(timedelta(now_date,
                 DaysAheadOn(index(tl[1]), current_day_num)))
        ELSE t

NotParsed == [text |-> <<>>, on |-> 0, result |-> <<>>]

DateInit ==
    /\ today = 7
    /\ parsed = NotParsed

\* A day passes
NextDay ==
    /\ today < 6 + NumDays
    /\ today' = today + 1
    /\ UNCHANGED <<parsed, chat_vars, metrics_vars, shutdown_vars>>

\* _preprocess_day_pattern is called with a text
Preprocess ==
    /\ \E t \in DateTexts :
           parsed' = [text |-> t, on |-> today,
                      result |-> _preprocess_day_pattern(t, today)]
    /\ UNCHANGED <<today, chat_vars, metrics_vars, shutdown_vars>>

DateNext == NextDay \/ Preprocess

\* ------------------------------------------------------------------- init
Init ==
    /\ DateInit
    /\ ShutdownInit
    /\ MetricsInit
    /\ conversations = {}
    /\ messages = <<>>
    /\ now = 1
    /\ default_limit \in 1..MaxLimit
    /\ pc = [r \in Requests |-> "idle"]
    /\ kind = [r \in Requests |-> "none"]
    /\ user = [r \in Requests |-> 0]
    /\ text = [r \in Requests |-> <<>>]
    /\ conversation = [r \in Requests |-> NoConversation]
    /\ pending = [r \in Requests |-> NoPending]
    /\ recent_messages = [r \in Requests |-> <<>>]
    /\ response_content = [r \in Requests |-> <<>>]
    /\ invocations = [r \in Requests |-> 0]
    /\ user_message = [r \in Requests |-> 0]
    /\ assistant_message = [r \in Requests |-> 0]
    /\ response = [r \in Requests |-> NoResponse]
    /\ created = [r \in Requests |-> 0]
    /\ after = [r \in Requests |-> {}]

\* The wall clock advances
Tick ==
    /\ now < MaxClock
    /\ now' = now + 1
    /\ UNCHANGED <<conversations, messages, default_limit, pc, kind, user, text, conversation,
                   pending, recent_messages, response_content, invocations,
                   user_message, assistant_message, response, created, after, metrics_vars, shutdown_vars, date_vars>>

\* ------------------------------------------------------------ api/chat.py
\* The requests that have been answered
Ended == {q \in Requests : pc[q] \in {"done", "failed", "rejected"}}

\* Variant: the text is tested for emptiness without strip()
ChatNoStrip(r) ==
    /\ pc[r] = "idle"
    /\ after' = [after EXCEPT ![r] = Ended]
    /\ \E u \in Users, t \in Texts :
        /\ kind' = [kind EXCEPT ![r] = "chat"]
        /\ user' = [user EXCEPT ![r] = u]
        /\ text' = [text EXCEPT ![r] = t]
        /\ IF t = <<>>
           THEN /\ pc' = [pc EXCEPT ![r] = "rejected"]
                /\ response' = [response EXCEPT ![r] =
                       [status |-> 400, detail |-> "Message cannot be empty",
                        message |-> 0]]
           ELSE /\ pc' = [pc EXCEPT ![r] = "resolve"]
                /\ UNCHANGED response
    /\ UNCHANGED <<conversations, messages, now, default_limit, conversation,
                   pending, recent_messages, response_content, invocations,
                   user_message, assistant_message, created, metrics_vars, shutdown_vars, date_vars>>

\* POST /chat arrives: chat() validates the text (lines 49-53) and enters
\* process_user_message.
Chat(r) ==
    /\ pc[r] = "idle"
    /\ after' = [after EXCEPT ![r] = Ended]
    /\ \E u \in Users, t \in Texts :
        /\ kind' = [kind EXCEPT ![r] = "chat"]
        /\ user' = [user EXCEPT ![r] = u]
        /\ text' = [text EXCEPT ![r] = t]
        /\ IF strip(t) = <<>>
           THEN /\ pc' = [pc EXCEPT ![r] = "rejected"]
                /\ response' = [response EXCEPT ![r] =
                       [status |-> 400, detail |-> "Message cannot be empty",
                        message |-> 0]]
           ELSE /\ pc' = [pc EXCEPT ![r] = "resolve"]
                /\ UNCHANGED response
    /\ UNCHANGED <<conversations, messages, now, default_limit, conversation, pending,
                   recent_messages, response_content, invocations,
                   user_message, assistant_message, created, metrics_vars, shutdown_vars, date_vars>>

\* GET /conversations arrives: get_conversation() enters
\* get_or_create_conversation.
View(r) ==
    /\ pc[r] = "idle"
    /\ after' = [after EXCEPT ![r] = Ended]
    /\ \E u \in Users :
        /\ kind' = [kind EXCEPT ![r] = "view"]
        /\ user' = [user EXCEPT ![r] = u]
    /\ pc' = [pc EXCEPT ![r] = "resolve"]
    /\ UNCHANGED <<conversations, messages, now, default_limit, text, conversation, pending,
                   recent_messages, response_content, invocations,
                   user_message, assistant_message, response, created, metrics_vars, shutdown_vars, date_vars>>

\* Where the caller of get_or_create_conversation continues
AfterResolve(r) == IF kind[r] = "chat" THEN "store_user" ELSE "read"

\* Variant: the SELECT finds nothing and a conversation is always created
ResolveNoSelect(r) ==
    /\ pc[r] = "resolve"
    /\ pc' = [pc EXCEPT ![r] = "create"]
    /\ UNCHANGED <<conversations, messages, now, default_limit, kind, user,
                   text, conversation, pending, recent_messages,
                   response_content, invocations, user_message,
                   assistant_message, response, created, after, metrics_vars, shutdown_vars, date_vars>>

\* get_or_create_conversation, the SELECT (lines 18-22) and the test of
\* line 24
Resolve(r) ==
    /\ pc[r] = "resolve"
    /\ IF SelectConversation(conversations, user[r]) = {}
       THEN /\ pc' = [pc EXCEPT ![r] = "create"]
            /\ UNCHANGED conversation
       ELSE \E c \in SelectConversation(conversations, user[r]) :
            /\ conversation' = [conversation EXCEPT ![r] = c]
            /\ pc' = [pc EXCEPT ![r] = AfterResolve(r)]
    /\ UNCHANGED <<conversations, messages, now, default_limit, kind, user, text, pending,
                   recent_messages, response_content, invocations,
                   user_message, assistant_message, response, created, after, metrics_vars, shutdown_vars, date_vars>>

\* get_or_create_conversation, the INSERT, commit and refresh (lines 25-28)
Create(r) ==
    /\ pc[r] = "create"
    /\ conversations' = conversations \cup {NewConversation(conversations, user[r])}
    /\ conversation' = [conversation EXCEPT ![r] =
           NewConversation(conversations, user[r])]
    /\ created' = [created EXCEPT ![r] = NewConversation(conversations, user[r]).id]
    /\ pc' = [pc EXCEPT ![r] = AfterResolve(r)]
    /\ UNCHANGED <<messages, now, default_limit, kind, user, text, pending, recent_messages,
                   response_content, invocations, user_message,
                   assistant_message, response, after, metrics_vars, shutdown_vars, date_vars>>

\* Variant: the conversation keeps the timestamp it was loaded with
StoreBeginStale(r, at, role, content, next) ==
    /\ pc[r] = at
    /\ pending' = [pending EXCEPT ![r] =
           [role |-> role, content |-> content,
            updated_at |-> conversation[r].updated_at]]
    /\ pc' = [pc EXCEPT ![r] = next]
    /\ UNCHANGED <<conversations, messages, now, default_limit, kind, user,
                   text, conversation, recent_messages, response_content,
                   invocations, user_message, assistant_message, response,
                   created, after, metrics_vars, shutdown_vars, date_vars>>

\* store_message up to the commit (lines 53-64): the message is added to the
\* session, the conversation is looked up and its timestamp is taken from
\* the wall clock.
StoreBegin(r, at, role, content, next) ==
    /\ pc[r] = at
    /\ pending' = [pending EXCEPT ![r] =
           [role |-> role, content |-> content,
            updated_at |-> IF \E c \in conversations : c.id = conversation[r].id
                           THEN now ELSE 0]]
    /\ pc' = [pc EXCEPT ![r] = next]
    /\ UNCHANGED <<conversations, messages, now, default_limit, kind, user, text,
                   conversation, recent_messages, response_content,
                   invocations, user_message, assistant_message, response, created, after, metrics_vars, shutdown_vars, date_vars>>

\* Variant: the store accepts a message of any conversation identifier
ForeignKeyUnchecked(cid) == TRUE

\* The constraint of Message.conversation_id that the store enforces at the
\* INSERT: the identifier is that of a Conversation row
ForeignKey(cid) == \E c \in conversations : c.id = cid

\* Variant: the message is inserted and the conversation row is left alone
StoreCommitRowsNoBump(r) ==
    /\ messages' = Append(messages,
           NewMessage(conversation[r].id, pending[r].role, pending[r].content))
    /\ UNCHANGED <<conversations, conversation>>
    /\ pending' = [pending EXCEPT ![r] = NoPending]

\* store_message, commit and refresh (lines 66-67): the INSERT of the
\* message and the UPDATE of the conversation are one transaction.
StoreCommitRows(r) ==
    /\ ForeignKey(conversation[r].id)
    /\ messages' = Append(messages,
           NewMessage(conversation[r].id, pending[r].role, pending[r].content))
    /\ conversations' = IF pending[r].updated_at = 0 THEN conversations
                        ELSE BumpConversation(conversation[r].id,
                                              pending[r].updated_at)
    /\ conversation' = [conversation EXCEPT ![r].updated_at =
           IF pending[r].updated_at = 0 THEN @ ELSE pending[r].updated_at]
           \* the object keeps the value assigned at line 63
    /\ pending' = [pending EXCEPT ![r] = NoPending]

\* process_user_message step 2 (chat.py line 23)
StoreUser(r) ==
    StoreBegin(r, "store_user", "user", text[r], "commit_user")

\* Variant: the turn calls the agent without reading the window
CommitUserNoContext(r) ==
    /\ pc[r] = "commit_user"
    /\ StoreCommitRows(r)
    /\ user_message' = [user_message EXCEPT ![r] = Len(messages) + 1]
    /\ pc' = [pc EXCEPT ![r] = "agent"]
    /\ UNCHANGED <<now, default_limit, kind, user, text, recent_messages,
                   response_content, invocations, assistant_message,
                   response, created, after, metrics_vars, shutdown_vars, date_vars>>

CommitUser(r) ==
    /\ pc[r] = "commit_user"
    /\ StoreCommitRows(r)
    /\ user_message' = [user_message EXCEPT ![r] = Len(messages) + 1]
    /\ pc' = [pc EXCEPT ![r] = "context"]
    /\ UNCHANGED <<now, default_limit, kind, user, text, recent_messages, response_content,
                   invocations, assistant_message, response, created, after, metrics_vars, shutdown_vars, date_vars>>

\* process_user_message step 3 (chat.py lines 27-28)
Context(r) ==
    /\ pc[r] = "context"
    /\ recent_messages' = [recent_messages EXCEPT ![r] =
           get_recent_messages(conversation[r].id, default_limit)]
    /\ pc' = [pc EXCEPT ![r] = "agent"]
    /\ UNCHANGED <<conversations, messages, now, default_limit, kind, user, text,
                   conversation, pending, response_content, invocations,
                   user_message, assistant_message, response, created, after, metrics_vars, shutdown_vars, date_vars>>

\* process_user_message steps 4-5 (chat.py lines 31-34), the agent answers
AgentReply(r) ==
    /\ pc[r] = "agent"
    /\ invocations' = [invocations EXCEPT ![r] = @ + 1]
    /\ \E t \in Replies : response_content' = [response_content EXCEPT ![r] = t]
    /\ pc' = [pc EXCEPT ![r] = "store_assistant"]
    /\ UNCHANGED <<conversations, messages, now, default_limit, kind, user, text,
                   conversation, pending, recent_messages, user_message,
                   assistant_message, response, created, after, metrics_vars, shutdown_vars, date_vars>>

\* The exception handler of chat() (api/chat.py lines 58-63)
Handler(r, e) ==
    response' = [response EXCEPT ![r] =
        [status |-> 500, detail |-> e, message |-> 0]]

\* Variant: a failed agent call is repeated once before the turn fails
AgentFailRetry(r) ==
    /\ pc[r] = "agent"
    /\ invocations' = [invocations EXCEPT ![r] = @ + 1]
    /\ IF invocations[r] = 0
       THEN UNCHANGED <<pc, response>>
       ELSE /\ \E e \in {"agent error", "agent timeout"} : Handler(r, e)
            /\ pc' = [pc EXCEPT ![r] = "failed"]
    /\ UNCHANGED <<conversations, messages, now, default_limit, kind, user,
                   text, conversation, pending, recent_messages,
                   response_content, user_message, assistant_message, created, after, metrics_vars, shutdown_vars, date_vars>>

\* Variant: a failed agent call retracts the user message of the turn when
\* it is the newest stored message
AgentFailRetract(r) ==
    /\ pc[r] = "agent"
    /\ invocations' = [invocations EXCEPT ![r] = @ + 1]
    /\ \E e \in {"agent error", "agent timeout"} : Handler(r, e)
    /\ messages' = IF user_message[r] = Len(messages)
                   THEN SubSeq(messages, 1, Len(messages) - 1)
                   ELSE messages
    /\ pc' = [pc EXCEPT ![r] = "failed"]
    /\ UNCHANGED <<conversations, now, default_limit, kind, user, text,
                   conversation, pending, recent_messages, response_content,
                   user_message, assistant_message, created, after, metrics_vars, shutdown_vars, date_vars>>

\* Variant: after a timeout the turn rebuilds the context and calls the
\* agent again
AgentFailReenter(r) ==
    /\ pc[r] = "agent"
    /\ pc' = [pc EXCEPT ![r] = "context"]
    /\ UNCHANGED <<conversations, messages, now, default_limit, kind, user,
                   text, conversation, pending, recent_messages,
                   response_content, invocations, user_message,
                   assistant_message, response, created, after, metrics_vars, shutdown_vars, date_vars>>

\* process_user_message steps 4-5, the agent call raises (error or timeout)
AgentFail(r) ==
    /\ pc[r] = "agent"
    /\ invocations' = [invocations EXCEPT ![r] = @ + 1]
    /\ \E e \in {"agent error", "agent timeout"} : Handler(r, e)
    /\ pc' = [pc EXCEPT ![r] = "failed"]
    /\ UNCHANGED <<conversations, messages, now, default_limit, kind, user, text,
                   conversation, pending, recent_messages, response_content,
                   user_message, assistant_message, created, after, metrics_vars, shutdown_vars, date_vars>>

\* process_user_message step 6 (chat.py line 37)
StoreAssistant(r) ==
    StoreBegin(r, "store_assistant", "assistant", response_content[r],
               "commit_assistant")

\* ... and the return of the stored message (chat.py line 39, api/chat.py
\* line 57)
CommitAssistant(r) ==
    /\ pc[r] = "commit_assistant"
    /\ StoreCommitRows(r)
    /\ assistant_message' = [assistant_message EXCEPT ![r] = Len(messages) + 1]
    /\ response' = [response EXCEPT ![r] =
           [status |-> 200, detail |-> "ok", message |-> Len(messages) + 1]]
    /\ pc' = [pc EXCEPT ![r] = "done"]
    /\ UNCHANGED <<now, default_limit, kind, user, text, recent_messages, response_content,
                   invocations, user_message, created, after, metrics_vars, shutdown_vars, date_vars>>

\* get_conversation, the read of the window and the response (api/chat.py
\* lines 79-85)
Read(r) ==
    /\ pc[r] = "read"
    /\ recent_messages' = [recent_messages EXCEPT ![r] =
           get_recent_messages(conversation[r].id, default_limit)]
    /\ response' = [response EXCEPT ![r] =
           [status |-> 200, detail |-> "ok", message |-> 0]]
    /\ pc' = [pc EXCEPT ![r] = "done"]
    /\ UNCHANGED <<conversations, messages, now, default_limit, kind, user, text,
                   conversation, pending, response_content, invocations,
                   user_message, assistant_message, created, after, metrics_vars, shutdown_vars, date_vars>>

\* A database round trip of the request raises (store unavailable, commit
\* refused): the transaction is rolled back and the exception leaves the
\* request, through the handler of chat(); get_conversation() has none and
\* the framework answers.
DbSteps == {"resolve", "create", "commit_user", "context",
            "commit_assistant", "read"}

\* Variant: a failed commit of the user message leaves the message inserted
DbFailPartial(r) ==
    /\ pc[r] \in DbSteps
    /\ IF kind[r] = "chat"
       THEN Handler(r, "persistence error")
       ELSE response' = [response EXCEPT ![r] =
                [status |-> 500, detail |-> "Internal Server Error",
                 message |-> 0]]
    /\ messages' = IF pc[r] = "commit_user"
                   THEN Append(messages, NewMessage(conversation[r].id,
                                   pending[r].role, pending[r].content))
                   ELSE messages
    /\ pending' = [pending EXCEPT ![r] = NoPending]
    /\ pc' = [pc EXCEPT ![r] = "failed"]
    /\ UNCHANGED <<conversations, now, default_limit, kind, user, text,
                   conversation, recent_messages, response_content,
                   invocations, user_message, assistant_message, created,
                   after, metrics_vars, shutdown_vars, date_vars>>

\* Variant: a failed commit of the user message is swallowed and the turn
\* goes on
DbFailSwallowed(r) ==
    /\ pc[r] \in DbSteps
    /\ IF pc[r] = "commit_user"
       THEN /\ pc' = [pc EXCEPT ![r] = "context"]
            /\ UNCHANGED response
       ELSE /\ pc' = [pc EXCEPT ![r] = "failed"]
            /\ IF kind[r] = "chat"
               THEN Handler(r, "persistence error")
               ELSE response' = [response EXCEPT ![r] =
                        [status |-> 500, detail |-> "Internal Server Error",
                         message |-> 0]]
    /\ pending' = [pending EXCEPT ![r] = NoPending]
    /\ UNCHANGED <<conversations, messages, now, default_limit, kind, user,
                   text, conversation, recent_messages, response_content,
                   invocations, user_message, assistant_message, created,
                   after, metrics_vars, shutdown_vars, date_vars>>

DbFail(r) ==
    /\ pc[r] \in DbSteps
    /\ IF kind[r] = "chat"
       THEN Handler(r, "persistence error")
       ELSE response' = [response EXCEPT ![r] =
                [status |-> 500, detail |-> "Internal Server Error",
                 message |-> 0]]
    /\ pending' = [pending EXCEPT ![r] = NoPending]
    /\ pc' = [pc EXCEPT ![r] = "failed"]
    /\ UNCHANGED <<conversations, messages, now, default_limit, kind, user, text,
                   conversation, recent_messages, response_content,
                   invocations, user_message, assistant_message, created, after, metrics_vars, shutdown_vars, date_vars>>

\* store_message is called on its own with a conversation identifier, of an
\* existing conversation or not (lines 49-52)
ConversationIds == 1..NumRequests

CallStore(r) ==
    /\ pc[r] = "idle"
    /\ after' = [after EXCEPT ![r] = Ended]
    /\ kind' = [kind EXCEPT ![r] = "store"]
    /\ \E cid \in ConversationIds :
           conversation' = [conversation EXCEPT ![r] =
               [id |-> cid, user_id |-> 0, updated_at |-> 0]]
    /\ \E t \in Texts \ {<<>>} : text' = [text EXCEPT ![r] = t]
    /\ pc' = [pc EXCEPT ![r] = "store"]
    /\ UNCHANGED <<conversations, messages, now, default_limit, user,
                   pending, recent_messages, response_content, invocations,
                   user_message, assistant_message, response, created, metrics_vars, shutdown_vars, date_vars>>

\* ... lines 53-64
StoreDirect(r) ==
    StoreBegin(r, "store", "user", text[r], "commit")

\* ... lines 66-68, the commit succeeds and the message is returned
CommitStore(r) ==
    /\ pc[r] = "commit"
    /\ StoreCommitRows(r)
    /\ user_message' = [user_message EXCEPT ![r] = Len(messages) + 1]
    /\ pc' = [pc EXCEPT ![r] = "done"]
    /\ UNCHANGED <<now, default_limit, kind, user, text, recent_messages,
                   response_content, invocations, assistant_message,
                   response, created, after, metrics_vars, shutdown_vars, date_vars>>

\* ... line 66, the store refuses the INSERT and the commit raises: the
\* transaction is rolled back
CommitRefused(r) ==
    /\ pc[r] = "commit"
    /\ ~ForeignKey(conversation[r].id)
    /\ pending' = [pending EXCEPT ![r] = NoPending]
    /\ pc' = [pc EXCEPT ![r] = "failed"]
    /\ UNCHANGED <<conversations, messages, now, default_limit, kind, user,
                   text, conversation, recent_messages, response_content,
                   invocations, user_message, assistant_message, response,
                   created, after, metrics_vars, shutdown_vars, date_vars>>

Next ==
    \/ Tick
    \/ \E r \in Requests :
        \/ Chat(r)
        \/ View(r)
        \/ Resolve(r)
        \/ Create(r)
        \/ StoreUser(r)
        \/ CommitUser(r)
        \/ Context(r)
        \/ AgentReply(r)
        \/ AgentFail(r)
        \/ StoreAssistant(r)
        \/ CommitAssistant(r)
        \/ Read(r)
        \/ DbFail(r)

Spec == Init /\ [][Next]_vars

\* The requests together with direct calls of store_message
NextStore ==
    \/ Next
    \/ \E r \in Requests :
        \/ CallStore(r)
        \/ StoreDirect(r)
        \/ CommitStore(r)
        \/ CommitRefused(r)

StoreSpec == Init /\ [][NextStore]_vars

\* The calls of the metrics middleware
MetricsSpec == Init /\ [][MetricsNext]_vars

\* The invocations of graceful_shutdown
ShutdownSpec == Init /\ [][ShutdownNext]_vars

\* The calls of the date preprocessing
DateSpec == Init /\ [][DateNext]_vars

\* ChatAgent.process_message (mcp/agent.py) answers: it returns the reply
\* text, or raises an error, at the latest when its timeout expires
AgentAnswers(r) == AgentReply(r) \/ AgentFail(r)

\* A step of the handler's own code after the request's arrival: a database
\* round trip returns or raises.
Progress(r) ==
    \/ Resolve(r)
    \/ Create(r)
    \/ StoreUser(r)
    \/ CommitUser(r)
    \/ Context(r)
    \/ StoreAssistant(r)
    \/ CommitAssistant(r)
    \/ Read(r)
    \/ DbFail(r)

\* Every request that has arrived is run to its end: the handlers are
\* straight-line code without loops.
LiveSpec ==
    /\ Init /\ [][Next]_vars
    /\ \A r \in Requests : WF_vars(Progress(r)) /\ WF_vars(AgentAnswers(r))

TypeOK ==
    /\ now \in 1..MaxClock
    /\ default_limit \in 1..MaxLimit
    /\ \A r \in Requests : pc[r] \in {"idle", "rejected", "resolve", "create",
           "store_user", "commit_user", "context", "agent", "store_assistant",
           "commit_assistant", "read", "done", "failed", "store", "commit"}

\* ================================================================ claims
AgentErrors == {"agent error", "agent timeout"}

\* What GET /conversations can return for user u when it runs without
\* interruption in the current state: the windows of the conversations that
\* get_or_create_conversation can return
ReadViews(u) ==
    {get_recent_messages(o.conversation.id, default_limit) :
        o \in get_or_create_conversation(conversations, u)}

InWindow(w, id) == \E i \in 1..Len(w) : w[i].id = id

\* C1: in every reachable state at most one Conversation record exists per
\* user, under any interleaving of chat and read requests.
C1_OneConversationPerUser ==
    \A c, d \in conversations : c.user_id = d.user_id => c.id = d.id

\* C2: the agent is invoked at most once per submitted user message, exactly
\* once for a turn that is done, and only for a turn whose user message is
\* stored; a failed turn is not invoked again.
C2_AgentInvokedOnce ==
    \A r \in Requests :
        /\ invocations[r] <= 1
        /\ (kind[r] = "chat" /\ pc[r] = "done") => invocations[r] = 1
        /\ invocations[r] = 1 => user_message[r] # 0
        /\ pc[r] \in {"idle", "rejected", "resolve", "create", "store_user",
                      "commit_user", "context", "agent", "read"}
              => invocations[r] = 0

\* One turn is done and another turn has failed in its agent call, each after
\* one invocation.
C2_Witness ==
    \E r, q \in Requests :
        /\ kind[r] = "chat" /\ pc[r] = "done" /\ invocations[r] = 1
        /\ kind[q] = "chat" /\ pc[q] = "failed" /\ invocations[q] = 1
        /\ response[q].detail \in AgentErrors

\* C3: creation time strictly increases within a conversation in storage
\* order, also when two appends read the same wall-clock value or run
\* concurrently.
C3_CreationTimeStrictlyIncreases ==
    \A i, j \in 1..Len(messages) :
        (i < j /\ messages[i].conversation_id = messages[j].conversation_id)
            => messages[i].created_at < messages[j].created_at

\* Two turns have stored their user messages in one conversation one after
\* the other, both commits under the same wall-clock reading.
C3_Witness ==
    \E r, q \in Requests :
        /\ r # q
        /\ user_message[r] # 0 /\ user_message[q] = user_message[r] + 1
        /\ pc[r] = "context" /\ pc[q] = "context"
        /\ messages[user_message[r]].conversation_id
               = messages[user_message[q]].conversation_id
        /\ messages[user_message[r]].created_at = now

\* C4: for every user, two sequential calls of get_or_create_conversation
\* with no other operation in between return the same conversation
\* identifier, and the second call creates no record.
C4_ResolveTwiceSameConversation ==
    \A u \in Users :
        \A first \in get_or_create_conversation(conversations, u) :
            \A second \in get_or_create_conversation(first.conversations, u) :
                /\ second.conversation.id = first.conversation.id
                /\ second.conversations = first.conversations

Min(a, b) == IF a < b THEN a ELSE b

\* w is the window of size lim of conversation cid: Min(n, lim) distinct
\* messages of the conversation, oldest first, none of the messages left out
\* newer than one in the window
IsWindow(w, cid, lim) ==
    LET all == MessagesOf(cid)
        rows == {all[i] : i \in 1..Len(all)}
        inside == {w[i] : i \in 1..Len(w)}
    IN  /\ Len(w) = Min(Len(all), lim)
        /\ inside \subseteq rows
        /\ \A i, j \in 1..Len(w) : i < j => w[i].created_at < w[j].created_at
        /\ \A m \in rows \ inside : \A x \in inside : m.created_at < x.created_at
        /\ Len(all) > lim => w = SubSeq(all, Len(all) - lim + 1, Len(all))

\* C5: get_recent_messages(conversation, limit) returns exactly
\* min(n, limit) messages, the most recent ones, oldest first, and the n - limit
\* oldest are absent; the window a turn passes to the agent and the window the
\* read view returns are this window.
C5_WindowIsMostRecent ==
    /\ [](\A c \in conversations : \A lim \in 1..(MaxLimit + 1) :
            IsWindow(get_recent_messages(c.id, lim), c.id, lim))
    /\ [][\A r \in Requests :
            (pc[r] \in {"context", "read"} /\ pc'[r] \in {"agent", "done"})
                => IsWindow(recent_messages'[r], conversation[r].id,
                            default_limit)]_vars

\* A turn has read a window of limit messages, at least two, of a
\* conversation that holds more than limit messages: the oldest is left out.
C5_Witness ==
    \E r \in Requests :
        /\ kind[r] = "chat" /\ pc[r] = "agent"
        /\ default_limit >= 2
        /\ Len(recent_messages[r]) = default_limit
        /\ Len(MessagesOf(conversation[r].id)) > default_limit
        /\ ~InWindow(recent_messages[r], MessagesOf(conversation[r].id)[1].id)

\* The agent call of turn r has raised
AgentFailed(r) ==
    pc[r] = "failed" /\ invocations[r] = 1 /\ response_content[r] = <<>>

\* The user message of turn r is in every read view its user can get
Visible(r) ==
    \A w \in ReadViews(user[r]) : InWindow(w, user_message[r])

\* C6: when the agent call of a turn fails, the user message of the turn
\* remains stored and visible in the read view, no assistant message is
\* stored for the turn, and the caller receives an agent failure.
C6_AgentFailureKeepsUserMessage ==
    /\ [](\A r \in Requests :
            AgentFailed(r) =>
                /\ user_message[r] \in 1..Len(messages)
                /\ messages[user_message[r]].role = "user"
                /\ messages[user_message[r]].content = text[r]
                /\ assistant_message[r] = 0
                /\ response[r].status = 500
                /\ response[r].detail \in AgentErrors)
    /\ [][\A r \in Requests :
            (pc[r] = "agent" /\ pc'[r] = "failed") => Visible(r)']_vars

\* C7: an empty or whitespace-only text is rejected with a validation error
\* before the turn starts: no Conversation and no Message record is created
\* or changed and the agent is not invoked.
C7_EmptyTextRejected ==
    /\ [](\A r \in Requests :
            (kind[r] = "chat" /\ strip(text[r]) = <<>>) =>
                /\ pc[r] = "rejected"
                /\ response[r].status = 400
                /\ invocations[r] = 0
                /\ user_message[r] = 0
                /\ assistant_message[r] = 0
                /\ conversation[r] = NoConversation)
    /\ [][\A r \in Requests :
            (pc[r] = "idle" /\ pc'[r] = "rejected") =>
                /\ conversations' = conversations
                /\ messages' = messages
                /\ invocations' = invocations]_vars

\* A whitespace-only text has been rejected while records of another turn
\* exist.
C7_Witness ==
    \E r \in Requests :
        /\ pc[r] = "rejected" /\ text[r] = <<SP>>
        /\ response[r].status = 400
        /\ conversations # {} /\ messages # <<>>

\* C8: after two first submissions of the same new user have both completed
\* successfully, the user's read view contains both user messages and both
\* assistant replies, all in the user's single conversation (the window being
\* large enough for four messages).
C8_BothTurnsInOneConversation ==
    \A r, q \in Requests :
        (/\ r # q
         /\ kind[r] = "chat" /\ kind[q] = "chat"
         /\ user[r] = user[q]
         /\ pc[r] = "done" /\ pc[q] = "done"
         /\ default_limit >= 4) =>
            /\ \A c, d \in conversations :
                   (c.user_id = user[r] /\ d.user_id = user[r]) => c = d
            /\ \A w \in ReadViews(user[r]) :
                   /\ InWindow(w, user_message[r])
                   /\ InWindow(w, user_message[q])
                   /\ InWindow(w, assistant_message[r])
                   /\ InWindow(w, assistant_message[q])

\* C9: the history passed to the agent in a turn has the turn's just-stored
\* user message as its last entry, in every interleaving with other turns.
C9_HistoryEndsWithUserMessage ==
    \A r \in Requests :
        pc[r] = "agent" =>
            /\ recent_messages[r] # <<>>
            /\ recent_messages[r][Len(recent_messages[r])].id = user_message[r]
            /\ History(r)[Len(History(r))] =
                   [role |-> "user", content |-> text[r]]

\* C10: the context window built in a turn contains the user message the
\* turn has just stored, for every window limit >= 1 and every interleaving.
C10_WindowContainsUserMessage ==
    \A r \in Requests :
        pc[r] = "agent" => InWindow(recent_messages[r], user_message[r])

\* C11: within one conversation the order of the messages returned by
\* get_recent_messages is the order in which the store_message calls
\* committed, for every interleaving of concurrent appends (a message's id is
\* its position in commit order).
C11_RecentOrderIsCommitOrder ==
    \A c \in conversations : \A lim \in 1..(MaxLimit + 1) :
        LET w == get_recent_messages(c.id, lim)
        IN  \A i, j \in 1..Len(w) : i < j => w[i].id < w[j].id

\* Two turns have appended to one conversation, the one that took its
\* timestamp first committing second, and the window shows both.
C11_Witness ==
    \E r, q \in Requests :
        /\ r # q
        /\ pc[r] = "context" /\ pc[q] = "context"
        /\ conversation[r].id = conversation[q].id
        /\ user_message[q] < user_message[r]
        /\ conversation[r].updated_at < conversation[q].updated_at
        /\ Len(get_recent_messages(conversation[r].id, MaxLimit)) >= 2

\* The messages of w are strictly increasing in creation time and in the
\* order in which they were stored
Increasing(w) ==
    \A i, j \in 1..Len(w) :
        i < j => (w[i].created_at < w[j].created_at /\ w[i].id < w[j].id)

\* C12: in every reachable state the messages returned by the read view of a
\* conversation are strictly increasing in creation time and appear in the
\* order in which they were submitted.
C12_ReadViewIncreasing ==
    /\ \A u \in Users : \A w \in ReadViews(u) : Increasing(w)
    /\ \A r \in Requests :
           (kind[r] = "view" /\ pc[r] = "done") => Increasing(recent_messages[r])

\* A read view has returned two messages that were stored under one reading
\* of the wall clock.
C12_Witness ==
    \E r \in Requests :
        /\ kind[r] = "view" /\ pc[r] = "done"
        /\ Len(recent_messages[r]) >= 2
        /\ recent_messages[r][1].created_at = now
        /\ recent_messages[r][2].created_at > now

\* str(conversation.id) and conversation.updated_at.isoformat(): the text of
\* an identifier and of a time, equal texts for equal values only
str(id) == <<"uuid", id>>
isoformat(t) == <<"iso", t>>

\* get_conversation run without interruption on a table: the possible
\* responses, each with the table afterwards
get_conversation(table, u) ==
    {[id |-> str(o.conversation.id),
      messages |-> get_recent_messages(o.conversation.id, default_limit),
      updated_at |-> isoformat(o.conversation.updated_at),
      conversations |-> o.conversations] :
        o \in get_or_create_conversation(table, u)}

\* C13: calling the read view twice for the same user with no submit_turn in
\* between returns identical results (conversation id, message sequence,
\* last-updated value), also for a user who has never submitted a message.
C13_ReadViewIdempotent ==
    \A u \in Users :
        \A first \in get_conversation(conversations, u) :
            \A second \in get_conversation(first.conversations, u) :
                /\ second.id = first.id
                /\ second.messages = first.messages
                /\ second.updated_at = first.updated_at

\* Request r leaves the commit of a store_message call in this step
LeavesCommit(r) ==
    pc[r] \in {"commit_user", "commit_assistant"} /\ pc'[r] # pc[r]

\* C14: store_message is atomic over the message insert and the timestamp
\* bump: after any append, successful or failed, either the new message is
\* stored and the owning conversation's last_updated is written, or neither;
\* and nothing else writes either.
C14_AppendAtomic ==
    [][/\ \A r \in Requests :
            LeavesCommit(r) =>
                \/ /\ messages' = messages
                   /\ conversations' = conversations
                \/ /\ messages' = Append(messages, messages'[Len(messages')])
                   /\ messages'[Len(messages')].conversation_id = conversation[r].id
                   /\ messages'[Len(messages')].role = pending[r].role
                   /\ messages'[Len(messages')].content = pending[r].content
                   /\ conversations' =
                         {IF c.id = conversation[r].id
                          THEN [c EXCEPT !.updated_at = pending[r].updated_at]
                          ELSE c : c \in conversations}
                   /\ \E c \in conversations : c.id = conversation[r].id
       /\ (messages' # messages \/ ~(conversations \subseteq conversations'))
              => \E r \in Requests : LeavesCommit(r)]_vars

\* One append has failed and stored nothing, another has stored its message
\* and written a later timestamp to its conversation.
C14_Witness ==
    \E r, q \in Requests :
        /\ kind[r] = "chat" /\ pc[r] = "failed"
        /\ conversation[r] # NoConversation /\ user_message[r] = 0
        /\ pc[q] = "context"
        /\ messages[user_message[q]].conversation_id = conversation[q].id
        /\ \E c \in conversations :
               /\ c.id = conversation[q].id
               /\ c.updated_at = conversation[q].updated_at
               /\ c.updated_at > 1

\* The row of conversation cid in a table
Row(table, cid) == CHOOSE c \in table : c.id = cid

\* Request r commits a store_message call in this step
Commits(r) == LeavesCommit(r) /\ Len(messages') = Len(messages) + 1

\* C15 as stated: after every successful store_message the owning
\* conversation's last_updated equals the creation time of the message just
\* stored.
C15_LastUpdatedIsCreationTime ==
    [][\A r \in Requests :
          Commits(r) =>
              Row(conversations', conversation[r].id).updated_at
                  = messages'[Len(messages')].created_at]_vars

\* C15 amended: after every successful store_message the owning
\* conversation's last_updated equals the wall-clock reading that this call
\* of store_message took at line 63, before its commit.
C15_LastUpdatedIsClockReading ==
    [][\A r \in Requests :
          /\ (pc[r] \in {"store_user", "store_assistant"} /\ pc'[r] # pc[r])
                 => pending'[r].updated_at = now
          /\ (LeavesCommit(r) /\ ~Commits(r)) => conversations' = conversations
          /\ Commits(r) =>
                 /\ pending[r].updated_at \in 1..now
                 /\ Row(conversations', conversation[r].id).updated_at
                        = pending[r].updated_at]_vars

\* A message has been stored with a creation time later than the reading its
\* store_message call has written to the conversation's last_updated.
C15_Witness ==
    \E r \in Requests :
        /\ pc[r] = "context"
        /\ Row(conversations, conversation[r].id).updated_at
               = conversation[r].updated_at
        /\ messages[user_message[r]].created_at > conversation[r].updated_at

\* C16: a conversation's last_updated never decreases along any execution,
\* also when two appends to the conversation take their timestamps in one
\* order and commit in the other.
C16_LastUpdatedNeverDecreases ==
    [][\A c \in conversations : \A d \in conversations' :
          d.id = c.id => d.updated_at >= c.updated_at]_vars

\* Turn r has failed before its user message was stored: in the resolution
\* of the conversation or in the append of the user message
FailedBeforeStore(r) ==
    kind[r] = "chat" /\ pc[r] = "failed" /\ user_message[r] = 0

\* C17: if conversation resolution or the append of the user message fails
\* in a turn, the agent is never invoked for that turn.
C17_NoAgentAfterEarlyFailure ==
    /\ [](\A r \in Requests :
            FailedBeforeStore(r) =>
                /\ invocations[r] = 0
                /\ response_content[r] = <<>>
                /\ recent_messages[r] = <<>>)
    /\ [][\A r \in Requests :
            pc[r] = "failed" =>
                (pc'[r] = "failed" /\ invocations'[r] = invocations[r])]_vars

\* One turn has failed in the resolution of its conversation and another in
\* the append of its user message, neither with an agent call.
C17_Witness ==
    \E r, q \in Requests :
        /\ FailedBeforeStore(r) /\ conversation[r] = NoConversation
        /\ FailedBeforeStore(q) /\ conversation[q] # NoConversation
        /\ invocations[r] = 0 /\ invocations[q] = 0

\* The append of the user message of turn r has failed
FailedAtAppend(r) ==
    FailedBeforeStore(r) /\ conversation[r] # NoConversation

\* C18 as stated: if persisting the user message fails, the turn ends in
\* Failed, the caller sees an error, and the store holds nothing from that
\* turn.
C18_NothingStored ==
    \A r \in Requests :
        FailedAtAppend(r) =>
            /\ response[r].status = 500
            /\ created[r] = 0
            /\ \A i \in 1..Len(messages) :
                   messages[i].conversation_id # created[r]

\* C18 amended: if persisting the user message fails, the turn ends in
\* Failed, the caller sees an error and no Message of the turn is stored; the
\* failed append writes nothing, and a Conversation the turn created before
\* stays stored.
C18_NoMessageStored ==
    /\ [](\A r \in Requests :
            FailedAtAppend(r) =>
                /\ response[r].status = 500
                /\ response[r].detail = "persistence error"
                /\ assistant_message[r] = 0
                /\ pending[r] = NoPending
                /\ created[r] # 0 =>
                       \E c \in conversations :
                           c.id = created[r] /\ c.user_id = user[r])
    /\ [][\A r \in Requests :
            (pc[r] = "commit_user" /\ pc'[r] = "failed") =>
                (messages' = messages /\ conversations' = conversations)]_vars

\* The append of a new user's first message has failed: the Conversation the
\* turn created is stored and holds no message.
C18_Witness ==
    \E r \in Requests :
        /\ FailedAtAppend(r)
        /\ created[r] # 0
        /\ \E c \in conversations : c.id = created[r]
        /\ MessagesOf(created[r]) = <<>>

\* Which of the four kinds the failure of the ended turn r is
FailureKind(r) ==
    IF pc[r] = "rejected" THEN "validation"
    ELSE IF invocations[r] = 0 THEN "persistence before the agent call"
    ELSE IF response_content[r] = <<>> THEN "agent"
    ELSE "persistence after the agent call"

\* What the caller is told
Reported(r) == <<response[r].status, response[r].detail>>

\* C19: every failure of a turn is reported to the caller, and failures of
\* different kinds (validation, persistence before the agent call, agent
\* failure, persistence after a successful agent call) are reported
\* differently.
C19_FailureKindsDistinct ==
    \A r, q \in Requests :
        (/\ kind[r] = "chat" /\ pc[r] \in {"rejected", "failed"}
         /\ kind[q] = "chat" /\ pc[q] \in {"rejected", "failed"}) =>
            /\ response[r].status >= 400
            /\ FailureKind(r) # FailureKind(q) => Reported(r) # Reported(q)

\* The other requests of the user of request q
SameUser(q) ==
    {r \in Requests \ {q} : kind[r] # "none" /\ user[r] = user[q]}

\* Turn q runs in a failure-free sequential run of its user: every other
\* request of the user had been answered successfully when q arrived, and
\* those requests did not overlap each other
Sequential(q) ==
    /\ kind[q] = "chat"
    /\ \A r \in SameUser(q) : r \in after[q] /\ pc[r] = "done"
    /\ \A r1, r2 \in SameUser(q) :
           r1 # r2 => (r1 \in after[r2] \/ r2 \in after[r1])

\* The turns of the user before turn q, and the number of turn q
Before(q) == {r \in SameUser(q) : kind[r] = "chat"}
TurnNumber(q) == Cardinality(Before(q)) + 1

\* C20: in a failure-free sequential run, on a user's n-th turn (with
\* 2n-1 <= limit) no new Conversation is created, the history passed to the
\* agent is the 2(n-1) messages stored before, in order, followed by the new
\* user message, and afterwards the read view returns the 2n messages in
\* submission order (the limit of the source is even, so that 2n <= limit
\* too).
C20_SequentialTurn ==
    \A q \in Requests :
        LET n == TurnNumber(q)
            all == MessagesOf(conversation[q].id)
        IN  /\ (Sequential(q) /\ pc[q] = "agent" /\ 2 * n - 1 <= default_limit) =>
                /\ n >= 2 => created[q] = 0
                /\ Len(all) = 2 * n - 1
                /\ recent_messages[q] = all
                /\ Len(History(q)) = 2 * n - 1
                /\ \A i \in 1..Len(all) :
                       History(q)[i] = [role |-> all[i].role,
                                        content |-> all[i].content]
                /\ all[2 * n - 1].id = user_message[q]
                /\ History(q)[2 * n - 1] = [role |-> "user", content |-> text[q]]
                /\ \A r \in Before(q) :
                       \E k \in 1..(n - 1) :
                           /\ all[2 * k - 1].id = user_message[r]
                           /\ all[2 * k].id = assistant_message[r]
            /\ (Sequential(q) /\ pc[q] = "done" /\ 2 * n <= default_limit) =>
                /\ n >= 2 => created[q] = 0
                /\ Len(all) = 2 * n
                /\ ReadViews(user[q]) = {all}
                /\ all[2 * n - 1].id = user_message[q]
                /\ all[2 * n].id = assistant_message[q]
                /\ \A r \in Before(q) :
                       user_message[r] < assistant_message[r]
                       /\ assistant_message[r] < user_message[q]

\* A user's second turn has ended after the first, and the read view shows
\* the four messages.
C20_Witness ==
    \E q \in Requests :
        /\ Sequential(q) /\ pc[q] = "done"
        /\ TurnNumber(q) = 2 /\ default_limit = 4
        /\ Len(recent_messages[q]) = 3
        /\ ReadViews(user[q]) = {MessagesOf(conversation[q].id)}
        /\ Len(MessagesOf(conversation[q].id)) = 4

\* No other turn overlaps turn r: every other chat request had ended when r
\* arrived
NoTurnInterleaves(r) ==
    \A q \in Requests \ {r} : kind[q] = "chat" => q \in after[r]

\* C21: on a successful turn the stored assistant message has role assistant
\* and the reply text of the agent as content, it is the message returned to
\* the caller, and the read view then shows the turn's user message directly
\* followed by that assistant message when no other turn interleaves.
C21_SuccessfulTurn ==
    \A r \in Requests :
        (kind[r] = "chat" /\ pc[r] = "done") =>
            /\ messages[assistant_message[r]].role = "assistant"
            /\ messages[assistant_message[r]].content = response_content[r]
            /\ messages[assistant_message[r]].conversation_id = conversation[r].id
            /\ response[r].status = 200
            /\ response[r].message = assistant_message[r]
            /\ (NoTurnInterleaves(r) /\ default_limit >= 2) =>
                   \A w \in ReadViews(user[r]) :
                       /\ Len(w) >= 2
                       /\ w[Len(w) - 1].id = user_message[r]
                       /\ w[Len(w)].id = assistant_message[r]

TurnState(p) ==
    CASE p \in {"resolve", "create", "store_user", "commit_user"} -> "Start"
      [] p = "context" -> "UserStored"
      [] p = "agent" -> "ContextBuilt"
      [] p \in {"store_assistant", "commit_assistant"} -> "AgentInvoked"
      [] p = "done" -> "Done"
      [] p = "failed" -> "Failed"
      [] OTHER -> "None"

\* Position of a state in Start, UserStored, ContextBuilt, AgentInvoked,
\* AssistantStored/Done
Rank(st) ==
    CASE st = "Start" -> 0
      [] st = "UserStored" -> 1
      [] st = "ContextBuilt" -> 2
      [] st = "AgentInvoked" -> 3
      [] st = "Done" -> 4
      [] OTHER -> -1

\* A step of turn r that raises is possible
CanFail(r) == ENABLED (DbFail(r) \/ AgentFail(r))

\* C23: a turn moves through Start, UserStored, ContextBuilt, AgentInvoked,
\* AssistantStored, Done in this order, no state skipped or revisited; the
\* agent is invoked only after the user message is stored and the window is
\* read, the assistant message is stored only after the agent has returned;
\* Failed is reachable from every non-terminal state, and Done and Failed
\* have no successor.
C23_TurnStateOrder ==
    /\ [](\A r \in {q \in Requests : kind[q] = "chat"} :
             /\ pc[r] \in {"resolve", "create", "commit_user", "context",
                           "agent", "commit_assistant"}
                    => CanFail(r)
             /\ TurnState(pc[r]) \in {"UserStored", "ContextBuilt",
                                      "AgentInvoked", "Done"}
                    => user_message[r] # 0
             /\ TurnState(pc[r]) \in {"AgentInvoked", "Done"}
                    => invocations[r] = 1 /\ response_content[r] \in Replies
             /\ TurnState(pc[r]) = "Done" => assistant_message[r] # 0)
    /\ [][\A r \in Requests :
             kind[r] = "chat" =>
                 LET a == TurnState(pc[r])
                     b == TurnState(pc'[r])
                 IN  /\ a \in {"Done", "Failed"} => pc'[r] = pc[r]
                     /\ (b # a /\ b # "Failed") => Rank(b) = Rank(a) + 1
                     /\ invocations'[r] # invocations[r] =>
                            /\ a = "ContextBuilt"
                            /\ user_message[r] # 0
                            /\ Len(recent_messages[r]) >= 1
                            /\ \A i \in 1..Len(recent_messages[r]) :
                                   recent_messages[r][i].conversation_id
                                       = conversation[r].id
                     /\ assistant_message'[r] # assistant_message[r] =>
                            /\ a = "AgentInvoked" /\ b = "Done"
                            /\ invocations[r] = 1
                            /\ response_content[r] \in Replies]_vars

\* One turn is done after all its states, another has failed in Start.
C23_Witness ==
    \E r, q \in Requests :
        /\ kind[r] = "chat" /\ pc[r] = "done" /\ assistant_message[r] # 0
        /\ kind[q] = "chat" /\ pc[q] = "failed" /\ user_message[q] = 0

\* Number of messages of a role in a conversation
CountRole(cid, role) ==
    Cardinality({i \in 1..Len(messages) :
                    /\ messages[i].conversation_id = cid
                    /\ messages[i].role = role})

\* C24: every stored assistant message belongs to a turn whose user message
\* is stored earlier in the same conversation; so in each conversation the
\* number of assistant messages never exceeds the number of user messages.
C24_AssistantHasUserMessage ==
    /\ \A i \in 1..Len(messages) :
           messages[i].role = "assistant" =>
               \E r \in Requests :
                   /\ assistant_message[r] = i
                   /\ user_message[r] \in 1..(i - 1)
                   /\ messages[user_message[r]].role = "user"
                   /\ messages[user_message[r]].conversation_id
                          = messages[i].conversation_id
    /\ \A c \in conversations :
           CountRole(c.id, "assistant") <= CountRole(c.id, "user")

\* A conversation holds the two messages of a finished turn and the user
\* message of a turn whose agent call failed.
C24_Witness ==
    \E r, q \in Requests :
        /\ pc[r] = "done" /\ assistant_message[r] # 0
        /\ AgentFailed(q) /\ conversation[q].id = conversation[r].id
        /\ CountRole(conversation[r].id, "assistant") = 1
        /\ CountRole(conversation[r].id, "user") = 2

\* The identifiers of the Conversation records of a table
Ids(table) == {c.id : c \in table}

\* User u has submitted a message that was stored
HasSubmitted(u) ==
    \E i \in 1..Len(messages) :
        /\ messages[i].role = "user"
        /\ \E c \in conversations :
               c.id = messages[i].conversation_id /\ c.user_id = u

\* C25: a Conversation record is created only while processing a user's
\* first submitted message; no other operation creates one, in particular
\* the read view of a user who has never submitted a message leaves the set
\* of Conversation records unchanged.  Conversation records are never
\* deleted.
C25_CreatedOnFirstMessageOnly ==
    [][/\ Ids(conversations) \subseteq Ids(conversations')
       /\ \A d \in conversations' :
              d.id \notin Ids(conversations) =>
                  \E r \in Requests :
                      /\ kind[r] = "chat"
                      /\ pc[r] = "create" /\ pc'[r] = "store_user"
                      /\ user[r] = d.user_id
                      /\ ~HasSubmitted(d.user_id)]_vars

\* C26: stored messages are immutable: every operation leaves the id,
\* conversation, role, content and creation time of every stored message
\* unchanged, and no stored message is ever removed.
C26_MessagesImmutable ==
    [][/\ Len(messages') >= Len(messages)
       /\ \A i \in 1..Len(messages) :
              /\ messages'[i].id = messages[i].id
              /\ messages'[i].conversation_id = messages[i].conversation_id
              /\ messages'[i].role = messages[i].role
              /\ messages'[i].content = messages[i].content
              /\ messages'[i].created_at = messages[i].created_at]_vars

\* A turn has failed in its agent call after storing its user message, and
\* another turn has stored a message after it.
C26_Witness ==
    \E r, q \in Requests :
        /\ AgentFailed(r) /\ user_message[r] # 0
        /\ user_message[q] > user_message[r]
        /\ messages[user_message[r]].content = text[r]

\* C27: in every reachable state every stored message's conversation
\* identifier refers to an existing Conversation record; store_message called
\* with an identifier of no existing conversation stores no message.
C27_MessagesReferToConversations ==
    /\ [](\A i \in 1..Len(messages) :
             messages[i].conversation_id \in Ids(conversations))
    /\ [][\A r \in Requests :
             (pc[r] = "commit" /\ pc'[r] # "commit"
                 /\ conversation[r].id \notin Ids(conversations))
             => messages' = messages /\ pc'[r] = "failed"]_vars

\* store_message has been called with the identifier of no conversation and
\* has failed, while a message of an existing conversation is stored.
C27_Witness ==
    \E r \in Requests :
        /\ kind[r] = "store" /\ pc[r] = "failed"
        /\ conversation[r].id \notin Ids(conversations)
        /\ Len(messages) >= 1

\* The Conversation records of user u
ConversationsOf(u) == {c \in conversations : c.user_id = u}

\* Position in storage order of the newest message of conversation cid (0
\* when it has none): the time of the last write to the conversation
LastWrite(cid) ==
    LET at == {i \in 1..Len(messages) : messages[i].conversation_id = cid}
    IN  IF at = {} THEN 0 ELSE CHOOSE i \in at : \A j \in at : j <= i

\* C28: when several Conversation records exist for one user,
\* get_or_create_conversation returns the one with the greatest last_updated
\* and creates none; so every later turn and read of that user uses the
\* conversation that was written to most recently.
C28_ResolveMostRecentlyWritten ==
    \A u \in Users :
        (/\ Cardinality(ConversationsOf(u)) >= 2
         /\ \A c \in ConversationsOf(u) : LastWrite(c.id) > 0) =>
            \A o \in get_or_create_conversation(conversations, u) :
                /\ o.conversations = conversations
                /\ o.conversation \in ConversationsOf(u)
                /\ \A c \in ConversationsOf(u) :
                       c.updated_at <= o.conversation.updated_at
                /\ \A c \in ConversationsOf(u) :
                       LastWrite(c.id) <= LastWrite(o.conversation.id)

\* The owner of the conversation a message belongs to
OwnerOf(m) ==
    {c.user_id : c \in {d \in conversations : d.id = m.conversation_id}}

\* C29: for every user u, the history passed to the agent in u's turn and
\* the messages returned by u's read view contain only messages of a
\* conversation owned by u, and a turn or read of u never creates or changes
\* a message or conversation owned by another user, under any interleaving.
C29_UserIsolation ==
    /\ [](\A r \in Requests :
             /\ conversation[r] # NoConversation =>
                    conversation[r].user_id = user[r]
             /\ \A i \in 1..Len(recent_messages[r]) :
                    OwnerOf(recent_messages[r][i]) = {user[r]})
    /\ [][\A r \in Requests :
             pc'[r] # pc[r] =>
                 /\ \A c \in conversations :
                        c.user_id # user'[r] => c \in conversations'
                 /\ \A d \in conversations' \ conversations :
                        d.user_id = user'[r]
                 /\ \A i \in 1..Len(messages) : messages'[i] = messages[i]
                 /\ \A i \in (Len(messages) + 1)..Len(messages') :
                        \E c \in conversations' :
                            /\ c.id = messages'[i].conversation_id
                            /\ c.user_id = user'[r]]_vars

\* Turns of two users have each read the window of their own conversation.
C29_Witness ==
    \E r, q \in Requests :
        /\ user[r] # user[q]
        /\ kind[r] = "chat" /\ kind[q] = "chat"
        /\ pc[r] \in {"agent", "store_assistant", "commit_assistant", "done"}
        /\ pc[q] \in {"agent", "store_assistant", "commit_assistant", "done"}
        /\ Len(recent_messages[r]) >= 1 /\ Len(recent_messages[q]) >= 1
        /\ conversation[r].id # conversation[q].id

\* The calls of dispatch that are in flight
InFlight == {k \in Calls : dispatch_pc[k] \in {"skip", "call_next"}}

Sum(f) ==
    LET RECURSIVE SumOver(_)
        SumOver(D) == IF D = {} THEN 0
                      ELSE LET x == CHOOSE y \in D : TRUE
                           IN  f[x] + SumOver(D \ {x})
    IN  SumOver(DOMAIN f)

\* C30: for every request whose path is not /metrics, dispatch increments
\* the in-progress gauge once, decrements it once and increments the request
\* counter once, whether the handler returns or raises; so the gauge is never
\* negative and is zero whenever no request is in flight, and /metrics
\* requests change no metric.
C30_MetricsBalance ==
    /\ \A k \in Calls :
           /\ (dispatch_pc[k] \in {"returned", "raised"}
                   /\ request[k].path # <<"metrics">>) =>
                  gauge_incs[k] = 1 /\ gauge_decs[k] = 1 /\ count_incs[k] = 1
           /\ dispatch_pc[k] = "call_next" =>
                  gauge_incs[k] = 1 /\ gauge_decs[k] = 0 /\ count_incs[k] = 0
           /\ request[k].path = <<"metrics">> =>
                  gauge_incs[k] = 0 /\ gauge_decs[k] = 0 /\ count_incs[k] = 0
    /\ \A l \in DOMAIN REQUEST_IN_PROGRESS :
           /\ REQUEST_IN_PROGRESS[l] >= 0
           /\ REQUEST_IN_PROGRESS[l]
                  = Cardinality({k \in Calls : dispatch_pc[k] = "call_next"
                                                 /\ Label(k) = l})
    /\ InFlight = {} => \A l \in DOMAIN REQUEST_IN_PROGRESS :
                            REQUEST_IN_PROGRESS[l] = 0
    /\ Sum(REQUEST_COUNT)
           = Cardinality({k \in Calls : dispatch_pc[k] \in {"returned", "raised"}
                                          /\ request[k].path # <<"metrics">>})

IsPrefix(s, t) == Len(s) <= Len(t) /\ SubSeq(t, 1, Len(s)) = s

\* The shutdown sequence runs at most once and in order, a step starting
\* only after the one before it has ended
RunsOnceInOrder ==
    /\ IsPrefix(shutdown_log, Sequence)
    /\ Cardinality({t \in Tasks : outcome[t] \notin {"none", "already"}}) <= 1
    /\ Cardinality({t \in Tasks : shutdown_pc[t] \in {"stop", "close"}}) <= 1

\* C31: however often graceful_shutdown is invoked, sequentially or from
\* concurrent tasks, the shutdown sequence is executed at most once, in the
\* order reminder scheduler stop, event publisher close, tracing shutdown; a
\* later step is never started before the earlier one has finished, and
\* graceful_shutdown returns normally also when a step raises or the timeout
\* expires.
C31_ShutdownRunsOnce ==
    /\ RunsOnceInOrder
    /\ \A t \in Tasks : shutdown_pc[t] # "raised"

\* C31 as the code has it: graceful_shutdown returns normally when a step
\* raises an Exception or the timeout expires, and is left by the exception
\* only when the awaited step raises a BaseException that is no Exception.
C31_ShutdownRunsOnceExceptCancelled ==
    /\ RunsOnceInOrder
    /\ \A t \in Tasks :
           /\ shutdown_pc[t] = "raised" <=> outcome[t] = "CancelledError"
           /\ outcome[t] \in {"already", "completed", "Exception", "TimeoutError"}
                  <=> shutdown_pc[t] = "returned"
           /\ outcome[t] = "completed" => shutdown_log = Sequence

\* The timeout has expired while the event publisher was closing, and two
\* more invocations have returned at once.
C31_Witness ==
    \E t, u, v \in Tasks :
        /\ u # v
        /\ outcome[t] = "TimeoutError" /\ shutdown_pc[t] = "returned"
        /\ outcome[u] = "already" /\ outcome[v] = "already"
        /\ shutdown_log = SubSeq(Sequence, 1, 3)

\* The week (Monday to Sunday) of a date
WeekOf(d) == d \div 7

\* The last call matched the pattern with the given first word ("" for the
\* bare day name) and the target weekday target
Matched(prefix, target) ==
    LET tl == text_lower(parsed.text)
    IN  IF prefix = ""
        THEN Len(tl) = 1 /\ tl[1] = _DAY_NAMES[target + 1]
        ELSE Len(tl) = 2 /\ tl[1] = prefix /\ tl[2] = _DAY_NAMES[target + 1]

====
